---- MODULE Spec2Model ----
(***************************************************************************)
(* Closetly wardrobe engine: the category transition functions, the        *)
(* WardrobeProvider actions built on them, and the analytics engine.       *)
(*                                                                         *)
(* Three specifications share the variables below.                         *)
(*   SpecT  the exported transition functions applied directly to a        *)
(*          category collection built by createDefaultCategory;            *)
(*   Spec   the WardrobeProvider: load from storage, then the context      *)
(*          actions (each action includes the effects that follow it);     *)
(*   SpecA  the WardrobeAnalyticsEngine methods applied to a snapshot.     *)
(*                                                                         *)
(* Time is counted in ticks of half a day, so that the Math.round and      *)
(* Math.floor of the day computations are not the identity.                *)
(* Fields of a category that no modelled function reads (emoji,            *)
(* avgWearFrequency, purchaseHistory, retirementHistory, price, reason)    *)
(* are left out of the records.                                            *)
(***************************************************************************)
EXTENDS Integers, Sequences, FiniteSets, TLC

VARIABLES categories, batches, laundryHistory, bagContents, bagCount,
          isLoading, now, nextId, last, result

vars == <<categories, batches, laundryHistory, bagContents, bagCount,
          isLoading, now, nextId, last, result>>

(***************************************************************************)
(* Bounds of the model.                                                    *)
(***************************************************************************)
MaxCats == 2
MaxOwned == 2
MaxCount == 2
MaxArg == 2
MaxWear == 1
MaxBatches == 1
MaxHistory == 2
MaxTicks == 1
MaxSteps == 3
MaxCalls == 3
MaxTaps == 4
MaxRaw == 1
BigStock == 8
ManyWears == 12
LongGap == 16
MidGap == 10
MonthGap == 60

Names == {"Socks", "Shirts"}

TicksPerDay == 2
StartNow == 200

NullDate == -1
NoBag == <<>>

(***************************************************************************)
(* Small helpers for JavaScript idioms.                                    *)
(***************************************************************************)
Min(a, b) == IF a <= b THEN a ELSE b
Max(a, b) == IF a >= b THEN a ELSE b

\* obj[key] || 0 on a name-keyed object
Get(obj, key) == IF key \in DOMAIN obj THEN obj[key] ELSE 0

\* Math.ceil(n * 0.2) for an integer n
CeilFifth(n) == -((-n) \div 5)
\* Math.ceil(n * 0.4) for an integer n
CeilTwoFifths(n) == -((-(2 * n)) \div 5)
\* x || 2
OrTwo(x) == IF x = 0 THEN 2 ELSE x

RECURSIVE SumOver(_, _)
SumOver(f, S) ==
  IF S = {} THEN 0
  ELSE LET k == CHOOSE x \in S : TRUE IN f[k] + SumOver(f, S \ {k})

\* Object.values(obj).reduce((a, b) => a + b, 0)
SumValues(obj) == SumOver(obj, DOMAIN obj)

MapSeq(s, F(_)) == [i \in 1..Len(s) |-> F(s[i])]

(***************************************************************************)
(* Core data models.                                                       *)
(***************************************************************************)
createDefaultCategory(id, name, totalOwned) ==
  [ id |-> id,
    name |-> name,
    totalOwned |-> totalOwned,
    cleanCount |-> totalOwned,
    dirtyCount |-> 0,
    inLaundryCount |-> 0,
    safetyThreshold |-> OrTwo(CeilFifth(totalOwned)),
    hibernated |-> FALSE,
    wearHistory |-> <<>>,
    lastWornDate |-> NullDate,
    maxBatchSize |-> OrTwo(CeilTwoFifths(totalOwned)) ]

createBatch(id, contents, t) ==
  [ id |-> id,
    timestamp |-> t,
    contents |-> contents,
    totalItems |-> SumValues(contents),
    status |-> "in_progress",
    completedAt |-> NullDate ]

(***************************************************************************)
(* State management helpers (the transition functions).                    *)
(***************************************************************************)
\* variant: the tossed items are moved from the clean to the dirty stock
TossOne_MarksDirty(cat, count, t) ==
  LET toToss == Min(count, cat.cleanCount)
  IN [cat EXCEPT !.cleanCount = cat.cleanCount - toToss,
                 !.dirtyCount = cat.dirtyCount + toToss,
                 !.lastWornDate = t,
                 !.wearHistory = Append(@, [date |-> t, count |-> toToss])]

TossOne(cat, count, t) ==
  LET toToss == Min(count, cat.cleanCount)
  IN [cat EXCEPT !.lastWornDate = t,
                 !.wearHistory = Append(@, [date |-> t, count |-> toToss])]

processItemToss(cats, categoryId, count, t) ==
  MapSeq(cats, LAMBDA cat : IF cat.id # categoryId THEN cat
                            ELSE TossOne(cat, count, t))

\* variant: the request is not clamped to the clean stock
DispatchOne_NoClamp(cat, bag) ==
  LET countInBag == Get(bag, cat.name)
  IN IF countInBag = 0 THEN cat
     ELSE [cat EXCEPT !.cleanCount = Max(0, cat.cleanCount - countInBag),
                      !.dirtyCount = cat.dirtyCount + countInBag,
                      !.inLaundryCount = cat.inLaundryCount + countInBag]

DispatchOne(cat, bag) ==
  LET countInBag == Get(bag, cat.name)
      toDispatch == Min(countInBag, cat.cleanCount)
  IN IF countInBag = 0 THEN cat
     ELSE IF toDispatch = 0 THEN cat
     ELSE [cat EXCEPT !.cleanCount = Max(0, cat.cleanCount - toDispatch),
                      !.dirtyCount = cat.dirtyCount + toDispatch,
                      !.inLaundryCount = cat.inLaundryCount + toDispatch]

processBatchDispatch(cats, bag) ==
  MapSeq(cats, LAMBDA cat : DispatchOne(cat, bag))

\* variant: the returned items are also counted as newly owned
CompleteOne_RaisesOwned(cat, batchContents) ==
  LET countInBatch == Get(batchContents, cat.name)
  IN IF countInBatch = 0 THEN cat
     ELSE [cat EXCEPT !.inLaundryCount = Max(0, cat.inLaundryCount - countInBatch),
                      !.dirtyCount = Max(0, cat.dirtyCount - countInBatch),
                      !.cleanCount = cat.cleanCount + countInBatch,
                      !.totalOwned = cat.totalOwned + countInBatch]

CompleteOne(cat, batchContents) ==
  LET countInBatch == Get(batchContents, cat.name)
  IN IF countInBatch = 0 THEN cat
     ELSE [cat EXCEPT !.inLaundryCount = Max(0, cat.inLaundryCount - countInBatch),
                      !.dirtyCount = Max(0, cat.dirtyCount - countInBatch),
                      !.cleanCount = cat.cleanCount + countInBatch]

processBatchComplete(cats, batchContents) ==
  MapSeq(cats, LAMBDA cat : CompleteOne(cat, batchContents))

AcquireOne(cat, count) ==
  LET newTotal == cat.totalOwned + count
  IN [cat EXCEPT !.totalOwned = newTotal,
                 !.cleanCount = cat.cleanCount + count,
                 !.safetyThreshold = OrTwo(CeilFifth(newTotal)),
                 !.maxBatchSize = OrTwo(CeilTwoFifths(newTotal))]

processItemAcquisition(cats, categoryId, count) ==
  MapSeq(cats, LAMBDA cat : IF cat.id # categoryId THEN cat
                            ELSE AcquireOne(cat, count))

\* variant: the thresholds are not recomputed from the new total
RetireOne_StaleThresholds(cat, count) ==
  LET toRetire == Min(count, cat.totalOwned)
      newTotal == Max(0, cat.totalOwned - toRetire)
      retireFromClean == Min(toRetire, cat.cleanCount)
      remaining1 == toRetire - retireFromClean
      retireFromDirty == Min(remaining1, cat.dirtyCount)
      remaining2 == remaining1 - retireFromDirty
      retireFromLaundry == Min(remaining2, cat.inLaundryCount)
  IN [cat EXCEPT !.totalOwned = newTotal,
                 !.cleanCount = cat.cleanCount - retireFromClean,
                 !.dirtyCount = cat.dirtyCount - retireFromDirty,
                 !.inLaundryCount = cat.inLaundryCount - retireFromLaundry]

RetireOne(cat, count) ==
  LET toRetire == Min(count, cat.totalOwned)
      newTotal == Max(0, cat.totalOwned - toRetire)
      retireFromClean == Min(toRetire, cat.cleanCount)
      remaining1 == toRetire - retireFromClean
      retireFromDirty == Min(remaining1, cat.dirtyCount)
      remaining2 == remaining1 - retireFromDirty
      retireFromLaundry == Min(remaining2, cat.inLaundryCount)
  IN [cat EXCEPT !.totalOwned = newTotal,
                 !.cleanCount = cat.cleanCount - retireFromClean,
                 !.dirtyCount = cat.dirtyCount - retireFromDirty,
                 !.inLaundryCount = cat.inLaundryCount - retireFromLaundry,
                 !.safetyThreshold = OrTwo(CeilFifth(newTotal)),
                 !.maxBatchSize = OrTwo(CeilTwoFifths(newTotal))]

processItemRetirement(cats, categoryId, count) ==
  MapSeq(cats, LAMBDA cat : IF cat.id # categoryId THEN cat
                            ELSE RetireOne(cat, count))

(***************************************************************************)
(* Model bounds on a category collection, used in the guards.              *)
(***************************************************************************)
Bounded(cats) ==
  \A i \in 1..Len(cats) :
     /\ cats[i].totalOwned <= MaxOwned
     /\ cats[i].cleanCount <= MaxCount
     /\ cats[i].dirtyCount <= MaxCount
     /\ cats[i].inLaundryCount <= MaxCount


\* wear events recorded in the whole collection
WearEntries(cats) ==
  LET lens == [i \in 1..Len(cats) |-> Len(cats[i].wearHistory)]
  IN SumOver(lens, DOMAIN lens)

Ids(cats) == {cats[i].id : i \in 1..Len(cats)}

\* the name-keyed objects over Names with values in 1..MaxArg
BagObjects == UNION {[D -> 1..MaxArg] : D \in SUBSET Names}

\* bookkeeping of the last operation: its name and arguments, the number n
\* of operations so far, and for a dispatch (and the completion that directly
\* follows it) the categories before the dispatch
OpPre(op, id, count, bag, pre) ==
  [op |-> op, id |-> id, count |-> count, bag |-> bag, pre |-> pre,
   n |-> IF op \in {"init", "load"} THEN 0 ELSE last.n + 1]

Op(op, id, count, bag) == OpPre(op, id, count, bag, <<>>)

(***************************************************************************)
(* Consistency repair run on the stored categories.  The function is       *)
(* imported from the engine module but its body is not part of the         *)
(* sources; it is modelled from its specification: counts are clamped to   *)
(* >= 0, an excess over totalOwned is taken from inLaundryCount, then      *)
(* dirtyCount, then cleanCount, and a deficit is added to dirtyCount, so   *)
(* that cleanCount is adjusted last.                                       *)
(***************************************************************************)
\* variant: only the clamp, the sum is not forced
FixOne_ClampOnly(cat) ==
  [cat EXCEPT !.totalOwned = Max(0, cat.totalOwned),
              !.cleanCount = Max(0, cat.cleanCount),
              !.dirtyCount = Max(0, cat.dirtyCount),
              !.inLaundryCount = Max(0, cat.inLaundryCount)]

FixOne(cat) ==
  LET total == Max(0, cat.totalOwned)
      clean == Max(0, cat.cleanCount)
      dirty == Max(0, cat.dirtyCount)
      laundry == Max(0, cat.inLaundryCount)
      excess == Max(0, clean + dirty + laundry - total)
      deficit == Max(0, total - (clean + dirty + laundry))
      fromLaundry == Min(excess, laundry)
      fromDirty == Min(excess - fromLaundry, dirty)
      fromClean == excess - fromLaundry - fromDirty
  IN [cat EXCEPT !.totalOwned = total,
                 !.cleanCount = clean - fromClean,
                 !.dirtyCount = dirty - fromDirty + deficit,
                 !.inLaundryCount = laundry - fromLaundry]

validateAndFixCategoryConsistency(cats) == MapSeq(cats, FixOne)

(***************************************************************************)
(* WardrobeProvider.                                                       *)
(***************************************************************************)
\* updated.filter(cat => cat.totalOwned > 0)
PruneZero(cats) == SelectSeq(cats, LAMBDA cat : cat.totalOwned > 0)

NamesOf(cats) == {cats[i].name : i \in 1..Len(cats)}

\* currentCategories.find(cat => cat.name === categoryName)
FindByName(cats, name) ==
  cats[CHOOSE i \in 1..Len(cats) :
         /\ cats[i].name = name
         /\ \A j \in 1..(i - 1) : cats[j].name # name]

FindById(seq, id) ==
  seq[CHOOSE i \in 1..Len(seq) :
         /\ seq[i].id = id
         /\ \A j \in 1..(i - 1) : seq[j].id # id]

HasId(seq, id) == \E j \in 1..Len(seq) : seq[j].id = id

\* Number(count) || 1
NumOrOne(count) == IF count = 0 THEN 1 ELSE count

\* the effect that removes bag entries of categories that no longer exist;
\* it yields the pair <<bagContents, bagCount>>
CleanOrphans(cats, bag, count) ==
  LET kept == DOMAIN bag \cap NamesOf(cats)
      cleaned == [n \in kept |-> bag[n]]
  IN IF Cardinality(kept) # Cardinality(DOMAIN bag)
     THEN <<cleaned, SumValues(cleaned)>>
     ELSE <<bag, count>>

\* the state after an action's setters and the effects that follow them
Commit(cats, bag, count) ==
  /\ categories' = cats
  /\ bagContents' = CleanOrphans(cats, bag, count)[1]
  /\ bagCount' = CleanOrphans(cats, bag, count)[2]

\* variant that keeps an entry whose validated quantity is zero
ValidatedBag_KeepsZero(cats, bag) ==
  LET ok == {n \in DOMAIN bag : bag[n] > 0 /\ n \in NamesOf(cats)}
  IN [n \in ok |-> Min(bag[n], FindByName(cats, n).dirtyCount)]

\* the validated bag of dispatchLaundry: each positive entry of an existing
\* category, cut down to that category's dirtyCount
ValidatedBag(cats, bag) ==
  LET ok == {n \in DOMAIN bag :
               /\ bag[n] > 0
               /\ n \in NamesOf(cats)
               /\ Min(bag[n], FindByName(cats, n).dirtyCount) > 0}
  IN [n \in ok |-> Min(bag[n], FindByName(cats, n).dirtyCount)]

\* stored slices read by loadData
RawCategory(id, name, total, clean, dirty, laundry) ==
  [createDefaultCategory(id, name, Max(0, total)) EXCEPT
      !.totalOwned = total, !.cleanCount = clean,
      !.dirtyCount = dirty, !.inLaundryCount = laundry]

StoredCategory(id) ==
  {RawCategory(id, name, total, clean, dirty, laundry) :
     name \in Names, total \in 0..MaxOwned, clean \in 0..MaxOwned,
     dirty \in 0..MaxOwned, laundry \in 0..1}

StoredCategories ==
  {<<>>} \cup {<<c>> : c \in StoredCategory(1)}
         \cup {<<c, d>> : c \in StoredCategory(1), d \in StoredCategory(2)}

\* the provider renders its children once loading is over; MaxSteps bounds
\* the number of actions of a run
Ready == ~isLoading /\ last.n < MaxSteps

Init ==
  /\ categories = <<>>
  /\ batches = <<>>
  /\ laundryHistory = <<>>
  /\ bagContents = NoBag
  /\ bagCount = 0
  /\ isLoading = TRUE
  /\ now = StartNow
  /\ nextId = 3
  /\ last = Op("init", 0, 0, NoBag)
  /\ result = 0

loadData ==
  /\ isLoading
  /\ \E stored \in StoredCategories :
     /\ isLoading' = FALSE
     /\ Commit(IF Len(stored) > 0
               THEN validateAndFixCategoryConsistency(stored)
               ELSE categories,
               bagContents, bagCount)
     /\ last' = Op("load", 0, 0, NoBag)
     /\ UNCHANGED <<batches, laundryHistory, now, nextId, result>>

dispatchLaundryCall ==
  LET bag == bagContents
      validated == ValidatedBag(categories, bag)
      newBatch == createBatch(nextId, validated, now)
  IN /\ IF SumValues(validated) = 0
        THEN /\ last' = OpPre("dispatch", 0, 0, bag, categories)
             /\ UNCHANGED <<categories, batches, bagContents, bagCount, nextId>>
        ELSE /\ Len(batches) < MaxBatches
             /\ batches' = Append(batches, newBatch)
             /\ Commit(PruneZero(processBatchDispatch(categories, validated)),
                       NoBag, 0)
             /\ Bounded(categories')
             /\ nextId' = nextId + 1
             /\ last' = OpPre("dispatch", nextId, 0, bag, categories)
     /\ UNCHANGED <<laundryHistory, isLoading, now, result>>

dispatchLaundry == Ready /\ dispatchLaundryCall

addToBag ==
  \E name \in Names, count \in 0..MaxArg :
     LET toAdd == Max(0, count)
     IN /\ Ready
        /\ name \in NamesOf(categories)
        /\ toAdd # 0
        /\ Get(bagContents, name) + toAdd <= MaxArg
        /\ bagContents' =
             [n \in DOMAIN bagContents \cup {name} |->
                IF n = name THEN Get(bagContents, name) + toAdd
                ELSE bagContents[n]]
        /\ bagCount' = bagCount + toAdd
        /\ last' = Op("addToBag", 0, count, NoBag)
        /\ UNCHANGED <<categories, batches, laundryHistory, isLoading, now,
                       nextId, result>>

clearBag ==
  /\ Ready
  /\ bagContents' = NoBag
  /\ bagCount' = 0
  /\ last' = Op("clearBag", 0, 0, NoBag)
  /\ UNCHANGED <<categories, batches, laundryHistory, isLoading, now,
                 nextId, result>>

completeBatchCall(batchId) ==
  LET batch == FindById(batches, batchId)
      completedBatch == [batch EXCEPT !.status = "completed",
                                      !.completedAt = now]
      directly == /\ last.op = "dispatch"
                  /\ last.id = batchId
  IN /\ Len(laundryHistory) < MaxHistory
     /\ batches' = MapSeq(batches, LAMBDA b : IF b.id = batchId
                                              THEN completedBatch ELSE b)
     /\ Commit(PruneZero(processBatchComplete(categories, batch.contents)),
               bagContents, bagCount)
     /\ Bounded(categories')
     /\ laundryHistory' = Append(laundryHistory, completedBatch)
     /\ last' = OpPre("complete", batchId, 0, batch.contents,
                      IF directly THEN last.pre ELSE <<>>)
     /\ UNCHANGED <<isLoading, now, nextId, result>>

completeBatch ==
  \E k \in 1..Len(batches) : Ready /\ completeBatchCall(batches[k].id)

tossItem ==
  \E id \in Ids(categories), count \in 0..1 :
     /\ Ready
     /\ WearEntries(categories) < MaxWear
     /\ Commit(PruneZero(processItemToss(categories, id, NumOrOne(count), now)),
               bagContents, bagCount)
     /\ last' = Op("toss", id, count, NoBag)
     /\ UNCHANGED <<batches, laundryHistory, isLoading, now, nextId, result>>

acquireItem ==
  \E id \in Ids(categories), count \in 0..MaxArg :
     /\ Ready
     /\ Commit(PruneZero(processItemAcquisition(categories, id, NumOrOne(count))),
               bagContents, bagCount)
     /\ Bounded(categories')
     /\ last' = Op("acquire", id, count, NoBag)
     /\ UNCHANGED <<batches, laundryHistory, isLoading, now, nextId, result>>

retireItem ==
  \E id \in Ids(categories), count \in 0..MaxArg :
     /\ Ready
     /\ Commit(PruneZero(processItemRetirement(categories, id, NumOrOne(count))),
               bagContents, bagCount)
     /\ last' = Op("retire", id, count, NoBag)
     /\ UNCHANGED <<batches, laundryHistory, isLoading, now, nextId, result>>

updateCategoryHibernation ==
  \E id \in Ids(categories), hibernated \in BOOLEAN :
     /\ Ready
     /\ Commit(MapSeq(categories,
                      LAMBDA cat : IF cat.id = id
                                   THEN [cat EXCEPT !.hibernated = hibernated]
                                   ELSE cat),
               bagContents, bagCount)
     /\ last' = Op("hibernate", id, 0, NoBag)
     /\ UNCHANGED <<batches, laundryHistory, isLoading, now, nextId, result>>

addCategory ==
  \E name \in Names, initialCount \in 0..MaxOwned :
     LET newCategory == createDefaultCategory(nextId, name, NumOrOne(initialCount))
         updated == Append(categories, newCategory)
     IN /\ Ready
        /\ Len(categories) < MaxCats
        /\ Commit(IF initialCount = 0 THEN PruneZero(updated) ELSE updated,
                  bagContents, bagCount)
        /\ nextId' = nextId + 1
        /\ last' = Op("addCategory", nextId, initialCount, NoBag)
        /\ UNCHANGED <<batches, laundryHistory, isLoading, now, result>>

\* variant that deletes the hamper entry and leaves the staged total alone
removeCategory_StaleCount ==
  \E id \in Ids(categories) :
     LET categoryToRemove == FindById(categories, id)
         name == categoryToRemove.name
         hit == Get(bagContents, name) # 0
     IN /\ Ready
        /\ Commit(SelectSeq(categories, LAMBDA cat : cat.id # id),
                  IF hit THEN [n \in DOMAIN bagContents \ {name} |-> bagContents[n]]
                  ELSE bagContents,
                  bagCount)
        /\ last' = Op("removeCategory", id, 0, bagContents)
        /\ UNCHANGED <<batches, laundryHistory, isLoading, now, nextId, result>>

removeCategory ==
  \E id \in Ids(categories) :
     LET categoryToRemove == FindById(categories, id)
         name == categoryToRemove.name
         hit == Get(bagContents, name) # 0
     IN /\ Ready
        /\ Commit(SelectSeq(categories, LAMBDA cat : cat.id # id),
                  IF hit THEN [n \in DOMAIN bagContents \ {name} |-> bagContents[n]]
                  ELSE bagContents,
                  IF hit THEN Max(0, bagCount - bagContents[name])
                  ELSE bagCount)
        /\ last' = Op("removeCategory", id, 0, bagContents)
        /\ UNCHANGED <<batches, laundryHistory, isLoading, now, nextId, result>>

\* the clock (Date.now()) moves on between two actions
Tick ==
  /\ ~isLoading
  /\ now < StartNow + MaxTicks
  /\ now' = now + 1
  /\ UNCHANGED <<categories, batches, laundryHistory, bagContents, bagCount,
                 isLoading, nextId, last, result>>

Next ==
  \/ loadData
  \/ dispatchLaundry
  \/ addToBag
  \/ clearBag
  \/ completeBatch
  \/ tossItem
  \/ acquireItem
  \/ retireItem
  \/ updateCategoryHibernation
  \/ addCategory
  \/ removeCategory
  \/ Tick

Spec == Init /\ [][Next]_vars

(***************************************************************************)
(* SpecH: the Virtual Hamper and the active-batch cards driving the        *)
(* provider.  The collection holds one or two categories as addCategory    *)
(* created them (all items clean) or as an earlier session stored them     *)
(* (one item dirty).                                                       *)
(***************************************************************************)
maxCapacity == 30

\* MaxTaps bounds the number of taps of a run
HReady == ~isLoading /\ last.n < MaxTaps

HamperCategory(id, name) ==
  { RawCategory(id, name, 1, 1, 0, 0), RawCategory(id, name, MaxOwned, MaxOwned, 0, 0),
    RawCategory(id, name, 1, 0, 1, 0), RawCategory(id, name, MaxOwned, MaxOwned - 1, 1, 0) }

HamperCollections ==
  {<<c>> : c \in HamperCategory(1, "Socks")}
    \cup {<<c, d>> : c \in HamperCategory(1, "Socks"),
                     d \in HamperCategory(2, "Shirts")}

InitH ==
  /\ categories \in HamperCollections
  /\ batches = <<>>
  /\ laundryHistory = <<>>
  /\ bagContents = NoBag
  /\ bagCount = 0
  /\ isLoading = FALSE
  /\ now = StartNow
  /\ nextId = 3
  /\ last = Op("init", 0, 0, NoBag)
  /\ result = 0

\* k calls of the provider's tossItem(id, 1)
RECURSIVE TossTimes(_, _, _, _)
TossTimes(cats, id, k, t) ==
  IF k = 0 THEN cats
  ELSE TossTimes(PruneZero(processItemToss(cats, id, NumOrOne(1), t)),
                 id, k - 1, t)

\* the hamper after the provider's addToBag(name, count), as the pair
\* <<bagContents, bagCount>>; cats is the collection the handler's ref holds
BagAfterAdd(cats, bag, total, name, count) ==
  LET toAdd == Max(0, count)
  IN IF name \notin NamesOf(cats) \/ toAdd = 0 THEN <<bag, total>>
     ELSE << [n \in DOMAIN bag \cup {name} |->
                IF n = name THEN Get(bag, name) + toAdd ELSE bag[n]],
             total + toAdd >>

\* VirtualHamper.tossItem
hamperTossItem ==
  \E i \in 1..Len(categories) :
     LET category == categories[i]
         added == BagAfterAdd(categories, bagContents, bagCount, category.name, 1)
     IN /\ HReady
        /\ category.cleanCount # 0
        /\ bagCount < maxCapacity
        /\ Commit(TossTimes(categories, category.id, 1, now), added[1], added[2])
        /\ last' = Op("hamperToss", category.id, 1, NoBag)
        /\ UNCHANGED <<batches, laundryHistory, isLoading, now, nextId, result>>

dumpAll ==
  \E i \in 1..Len(categories) :
     LET category == categories[i]
         count == category.cleanCount
         availableSpace == maxCapacity - bagCount
         toAdd == Min(count, availableSpace)
         added == BagAfterAdd(categories, bagContents, bagCount, category.name, toAdd)
     IN /\ HReady
        /\ category.cleanCount # 0
        /\ availableSpace > 0
        /\ Commit(TossTimes(categories, category.id, toAdd, now), added[1], added[2])
        /\ last' = Op("dumpAll", category.id, toAdd, NoBag)
        /\ UNCHANGED <<batches, laundryHistory, isLoading, now, nextId, result>>

dispatchBag ==
  /\ HReady
  /\ bagCount # 0
  /\ dispatchLaundryCall

\* ActiveBatchCard.handleMarkClean: every tap on a card ends in a call of
\* completeBatch with the card's batch, also a tap on a card that is
\* already dissolving
handleMarkClean ==
  \E k \in 1..Len(batches) : HReady /\ completeBatchCall(batches[k].id)

NextH ==
  \/ hamperTossItem
  \/ dumpAll
  \/ dispatchBag
  \/ handleMarkClean
  \/ Tick

SpecH == InitH /\ [][NextH]_vars


(***************************************************************************)
(* SpecM: the category management of the provider (addCategory and         *)
(* removeCategory) together with the hamper staging (addToBag, clearBag),  *)
(* from a collection of one or two categories.                             *)
(***************************************************************************)
NextM ==
  \/ addToBag
  \/ clearBag
  \/ addCategory
  \/ removeCategory

SpecM == InitH /\ [][NextM]_vars

(***************************************************************************)
(* SpecW: the hamper screen and the batch cards together with the          *)
(* wardrobe screen's purchases, retirements and hibernation toggles.       *)
(***************************************************************************)
NextW ==
  \/ NextH
  \/ acquireItem
  \/ retireItem
  \/ updateCategoryHibernation
  \/ removeCategory

SpecW == InitH /\ [][NextW]_vars

(***************************************************************************)
(* SpecN: the count-taking handlers of the provider called with any        *)
(* integer count, negative ones included.                                  *)
(***************************************************************************)
Counts == (0 - MaxArg)..MaxArg

tossItemAny ==
  \E id \in Ids(categories), count \in Counts :
     /\ Ready
     /\ WearEntries(categories) < MaxWear
     /\ Commit(PruneZero(processItemToss(categories, id, NumOrOne(count), now)),
               bagContents, bagCount)
     /\ last' = Op("toss", id, count, NoBag)
     /\ UNCHANGED <<batches, laundryHistory, isLoading, now, nextId, result>>

acquireItemAny ==
  \E id \in Ids(categories), count \in Counts :
     /\ Ready
     /\ Commit(PruneZero(processItemAcquisition(categories, id, NumOrOne(count))),
               bagContents, bagCount)
     /\ Bounded(categories')
     /\ last' = Op("acquire", id, count, NoBag)
     /\ UNCHANGED <<batches, laundryHistory, isLoading, now, nextId, result>>

retireItemAny ==
  \E id \in Ids(categories), count \in Counts :
     /\ Ready
     /\ Commit(PruneZero(processItemRetirement(categories, id, NumOrOne(count))),
               bagContents, bagCount)
     /\ Bounded(categories')
     /\ last' = Op("retire", id, count, NoBag)
     /\ UNCHANGED <<batches, laundryHistory, isLoading, now, nextId, result>>

\* addToBag; it returns without a change when the category is unknown or
\* Math.max(0, Number(count) || 0) is 0
addToBagAny ==
  \E name \in Names, count \in Counts :
     LET added == BagAfterAdd(categories, bagContents, bagCount, name, count)
     IN /\ Ready
        /\ Get(bagContents, name) + Max(0, count) <= MaxArg
        /\ bagContents' = added[1]
        /\ bagCount' = added[2]
        /\ last' = Op("addToBag", 0, count, NoBag)
        /\ UNCHANGED <<categories, batches, laundryHistory, isLoading, now,
                       nextId, result>>

NextN ==
  \/ tossItemAny
  \/ acquireItemAny
  \/ retireItemAny
  \/ addToBagAny

SpecN == InitH /\ [][NextN]_vars

(***************************************************************************)
(* SpecL: loading from and saving to the key-value storage.  The variable  *)
(* result holds the storage: the slices as they were stored before the     *)
(* provider was mounted (stored), the slices as they are now (storage),    *)
(* the hasUserMadeChanges ref and the number of saves issued (writes).     *)
(* A slice is absent (getItem gives null), corrupt (JSON.parse throws) or  *)
(* ok with its parsed value.                                               *)
(***************************************************************************)
Slice(kind, value) == [kind |-> kind, value |-> value]

StoredSlices ==
  LET unusable == {Slice("absent", <<>>), Slice("corrupt", <<>>)}
      batch == createBatch(5, [n \in {"Socks"} |-> 1], StartNow - 1)
      done == [batch EXCEPT !.status = "completed", !.completedAt = StartNow]
  IN { s \in
     [ categories : unusable \cup {Slice("ok", <<c>>) : c \in HamperCategory(1, "Socks")},
       batches : unusable \cup {Slice("ok", <<batch>>), Slice("ok", <<done>>)},
       laundryHistory : unusable \cup {Slice("ok", <<>>), Slice("ok", <<done>>)},
       bagContents : unusable \cup {Slice("ok", NoBag),
                                   Slice("ok", [n \in {"Socks"} |-> 1])} ] :
       \* a staged quantity is stored only along with its category
       s.bagContents.value # NoBag => s.categories.kind # "absent" }

InitL ==
  /\ categories = <<>>
  /\ batches = <<>>
  /\ laundryHistory = <<>>
  /\ bagContents = NoBag
  /\ bagCount = 0
  /\ isLoading = TRUE
  /\ now = StartNow
  /\ nextId = 3
  /\ last = Op("init", 0, 0, NoBag)
  /\ \E stored \in StoredSlices :
        result = [stored |-> stored, storage |-> stored,
                  hasUserMadeChanges |-> FALSE, writes |-> 0]

\* variant that saves whether or not the user has made a change
saveEffect_Unguarded(store, loading, changed, cats, bs, history, bag) ==
  IF loading
  THEN [store EXCEPT !.hasUserMadeChanges = changed]
  ELSE [store EXCEPT !.hasUserMadeChanges = changed,
                     !.writes = @ + 1,
                     !.storage = [categories |-> Slice("ok", cats),
                                  batches |-> Slice("ok", bs),
                                  laundryHistory |-> Slice("ok", history),
                                  bagContents |-> Slice("ok", bag)]]

\* the save effect, run after a render in which a slice or isLoading has
\* changed; changed is the value of the hasUserMadeChanges ref at that time
saveEffect(store, loading, changed, cats, bs, history, bag) ==
  IF loading \/ ~changed
  THEN [store EXCEPT !.hasUserMadeChanges = changed]
  ELSE [store EXCEPT !.hasUserMadeChanges = changed,
                     !.writes = @ + 1,
                     !.storage = [categories |-> Slice("ok", cats),
                                  batches |-> Slice("ok", bs),
                                  laundryHistory |-> Slice("ok", history),
                                  bagContents |-> Slice("ok", bag)]]

\* loadData over the four slices, followed by the effects of the render
\* that it causes (orphan cleanup, save)
loadStored ==
  LET s == result.storage
      usable(x) == x.kind = "ok"
      hasExistingData == \/ s.categories.kind # "absent"
                         \/ s.batches.kind # "absent"
                         \/ s.laundryHistory.kind # "absent"
      cats == IF usable(s.categories) /\ Len(s.categories.value) > 0
              THEN validateAndFixCategoryConsistency(s.categories.value)
              ELSE categories
      bag == IF usable(s.bagContents) THEN s.bagContents.value ELSE bagContents
      count == IF usable(s.bagContents) THEN SumValues(s.bagContents.value)
               ELSE bagCount
  IN /\ isLoading
     /\ isLoading' = FALSE
     /\ Commit(cats, bag, count)
     /\ batches' = IF usable(s.batches) THEN s.batches.value ELSE batches
     /\ laundryHistory' = IF usable(s.laundryHistory)
                             /\ Len(s.laundryHistory.value) > 0
                          THEN s.laundryHistory.value ELSE laundryHistory
     /\ last' = Op("load", 0, 0, NoBag)
     /\ result' = saveEffect(result, FALSE, hasExistingData, categories',
                             batches', laundryHistory', bagContents')
     /\ UNCHANGED <<now, nextId>>

\* addCategory followed by the save effect
addCategorySaved ==
  \E name \in Names, initialCount \in 1..MaxOwned :
     /\ Ready
     /\ Len(categories) < MaxCats
     /\ Commit(Append(categories,
                      createDefaultCategory(nextId, name, initialCount)),
               bagContents, bagCount)
     /\ nextId' = nextId + 1
     /\ last' = Op("addCategory", nextId, initialCount, NoBag)
     /\ result' = saveEffect(result, isLoading, TRUE, categories', batches,
                             laundryHistory, bagContents')
     /\ UNCHANGED <<batches, laundryHistory, isLoading, now>>

\* clearBag followed by the save effect
clearBagSaved ==
  /\ Ready
  /\ bagContents' = NoBag
  /\ bagCount' = 0
  /\ last' = Op("clearBag", 0, 0, NoBag)
  /\ result' = saveEffect(result, isLoading, TRUE, categories, batches,
                          laundryHistory, bagContents')
  /\ UNCHANGED <<categories, batches, laundryHistory, isLoading, now, nextId>>

NextL ==
  \/ loadStored
  \/ addCategorySaved
  \/ clearBagSaved

SpecL == InitL /\ [][NextL]_vars

(***************************************************************************)
(* WardrobeAnalyticsEngine.  Fractional numbers are kept in fixed point:   *)
(* scores and ratios in thousandths, square roots as integer square roots, *)
(* daily consumption as items per 30 days.  Within the ranges of the model *)
(* the quotients, floors and comparisons of the stockout computation agree *)
(* with IEEE double arithmetic; scores can differ from it in the last      *)
(* fixed-point digit.                                                      *)
(***************************************************************************)
RECURSIVE SqrtBetween(_, _, _)
SqrtBetween(lo, hi, n) ==
  IF lo >= hi THEN lo
  ELSE LET mid == (lo + hi + 1) \div 2
       IN IF mid * mid <= n THEN SqrtBetween(mid, hi, n)
          ELSE SqrtBetween(lo, mid - 1, n)

\* Math.sqrt, rounded down
ISqrt(n) == SqrtBetween(0, 46340, n)

SumSeq(s) == SumOver(s, DOMAIN s)

RECURSIVE MinSeq(_)
MinSeq(s) == IF Len(s) = 1 THEN s[1] ELSE Min(s[1], MinSeq(Tail(s)))
RECURSIVE MaxSeq(_)
MaxSeq(s) == IF Len(s) = 1 THEN s[1] ELSE Max(s[1], MaxSeq(Tail(s)))

\* Array.prototype.sort with a comparator a.key - b.key: a stable sort
SortRank(keys, i) ==
  Cardinality({j \in DOMAIN keys :
                 keys[j] < keys[i] \/ (keys[j] = keys[i] /\ j < i)}) + 1

StableSort(seq, keys) ==
  [p \in 1..Len(seq) |-> seq[CHOOSE i \in 1..Len(seq) : SortRank(keys, i) = p]]

\* variant that keeps the hibernated categories
ActiveCategories_WithHibernated(cats) ==
  SelectSeq(cats, LAMBDA c : c.totalOwned > 0)

\* categories.filter(c => !c.hibernated && c.totalOwned > 0)
ActiveCategories(cats) ==
  SelectSeq(cats, LAMBDA c : ~c.hibernated /\ c.totalOwned > 0)

\* timestamps: a date, null or not, as a number of ticks
TimeOf(date) == IF date = NullDate THEN 0 ELSE date

DayNames ==
  <<"Sunday", "Monday", "Tuesday", "Wednesday", "Thursday", "Friday", "Saturday">>

\* days[date.getDay()]; day 0 of the clock is a Thursday
formatDay(date) == DayNames[(((date \div TicksPerDay) + 4) % 7) + 1]

calculateCleanRatioScore(cats) ==
  LET active == ActiveCategories(cats)
      totalClean == SumSeq(MapSeq(active, LAMBDA c : c.cleanCount))
      totalOwned == SumSeq(MapSeq(active, LAMBDA c : c.totalOwned))
  IN IF Len(active) = 0 THEN 0
     ELSE IF totalOwned = 0 THEN 0
     ELSE (totalClean * 100000) \div totalOwned

calculateBalanceScore(cats) ==
  LET active == ActiveCategories(cats)
      cleanRatios == MapSeq(active, LAMBDA c : (c.cleanCount * 1000) \div c.totalOwned)
      avgRatio == SumSeq(cleanRatios) \div Len(cleanRatios)
      variance == SumSeq(MapSeq(cleanRatios,
                                LAMBDA r : (r - avgRatio) * (r - avgRatio)))
                    \div Len(cleanRatios)
      stdDev == ISqrt(variance)
  IN IF Len(active) = 0 THEN 0
     ELSE IF Len(active) < 2 THEN 100000
     ELSE Max(0, 100000 - stdDev * 200)

PenaltyOf(category) ==
  (IF category.cleanCount < category.safetyThreshold
   THEN 30000 - (category.cleanCount * 30000) \div category.safetyThreshold
   ELSE 0)
  + (IF category.cleanCount = 0 /\ category.totalOwned > 0 THEN 20000 ELSE 0)

calculateBottleneckPenalty(cats) ==
  Min(100000, SumSeq(MapSeq(ActiveCategories(cats), PenaltyOf)))

\* Math.round((curr - prev) / one day)
RoundDays(ticks) == (2 * ticks + TicksPerDay) \div (2 * TicksPerDay)

calculateLaundryIntervals(history) ==
  LET sortedHistory == StableSort(history,
                          MapSeq(history, LAMBDA h : TimeOf(h.completedAt)))
      days == [i \in 1..(Len(history) - 1) |->
                 RoundDays(TimeOf(sortedHistory[i + 1].completedAt)
                             - TimeOf(sortedHistory[i].completedAt))]
  IN IF Len(history) < 2 THEN <<>>
     ELSE SelectSeq(days, LAMBDA d : d > 0 /\ d < 30)

calculateConsistencyScore(history) ==
  LET intervals == MapSeq(calculateLaundryIntervals(history), LAMBDA d : d * 1000)
      avgInterval == SumSeq(intervals) \div Len(intervals)
      variance == SumSeq(MapSeq(intervals,
                                LAMBDA i : (i - avgInterval) * (i - avgInterval)))
                    \div Len(intervals)
      coefficientOfVariation == (ISqrt(variance) * 1000) \div avgInterval
  IN IF Len(history) = 0 THEN 0
     ELSE IF Len(history) < 3 THEN 50000
     ELSE IF Len(intervals) < 2 THEN 50000
     ELSE Max(0, 100000 - coefficientOfVariation * 100)

\* the weighted sum, in units of 1/100000
FlowRawScore(cats, history) ==
  calculateCleanRatioScore(cats) * 35
    + calculateBalanceScore(cats) * 25
    - calculateBottleneckPenalty(cats) * 25
    + calculateConsistencyScore(history) * 15

\* Math.round of a value given in units of 1/100000
RoundRaw(raw) == (raw + 50000) \div 100000

\* variant: the rounded score is returned without the clamp to 0..100
calculateFlowScore_NoClamp(cats, history) ==
  IF Len(ActiveCategories(cats)) = 0 THEN 0
  ELSE RoundRaw(FlowRawScore(cats, history))

\* variant: no early return for a wardrobe without active categories
calculateFlowScore_NoEmptyCase(cats, history) ==
  Max(0, Min(100, RoundRaw(FlowRawScore(cats, history))))

calculateFlowScore(cats, history) ==
  IF Len(ActiveCategories(cats)) = 0 THEN 0
  ELSE Max(0, Min(100, RoundRaw(FlowRawScore(cats, history))))

\* default consumption rates, in items per 30 days
DefaultRate(name) ==
  CASE name = "T-Shirts" -> 30
    [] name = "Socks" -> 30
    [] name = "Underwear" -> 30
    [] name = "Shirts" -> 21
    [] name = "Jeans" -> 9
    [] name = "Hoodies" -> 6
    [] OTHER -> 15

\* items per 30 days
estimateDailyConsumption(category, t) ==
  IF Len(category.wearHistory) < 7 THEN DefaultRate(category.name)
  ELSE Len(SelectSeq(category.wearHistory,
                     LAMBDA w : w.date > t - 30 * TicksPerDay))

\* the argument is the quotient num / den of days
classifyStockoutSeverity(num, den) ==
  IF num <= 2 * den THEN "critical"
  ELSE IF num <= 5 * den THEN "warning"
  ELSE "normal"

NoPrediction == [none |-> TRUE]

Prediction(category, t, rate, severity) ==
  [ categoryId |-> category.id,
    categoryName |-> category.name,
    currentClean |-> category.cleanCount,
    dailyConsumption |-> (rate * 200 + 30) \div 60,
    daysUntilStockout |-> (category.cleanCount * 30) \div rate,
    stockoutDate |-> t + ((category.cleanCount * 30) \div rate) * TicksPerDay,
    severity |-> severity ]

\* variant: the severity is taken from the rounded-down number of days
predictStockout_Floored(cats, categoryId, t) ==
  IF ~HasId(cats, categoryId) THEN NoPrediction
  ELSE LET category == FindById(cats, categoryId)
           rate == estimateDailyConsumption(category, t)
       IN IF category.hibernated THEN NoPrediction
          ELSE IF rate <= 0 THEN NoPrediction
          ELSE Prediction(category, t, rate,
                 classifyStockoutSeverity((category.cleanCount * 30) \div rate, 1))

predictStockout(cats, categoryId, t) ==
  IF ~HasId(cats, categoryId) THEN NoPrediction
  ELSE LET category == FindById(cats, categoryId)
           rate == estimateDailyConsumption(category, t)
       IN IF category.hibernated THEN NoPrediction
          ELSE IF rate <= 0 THEN NoPrediction
          ELSE Prediction(category, t, rate,
                 classifyStockoutSeverity(category.cleanCount * 30, rate))

\* variant: the predictions are left in category order
getAllStockoutPredictions_Unsorted(cats, t) ==
  SelectSeq(MapSeq(SelectSeq(cats, LAMBDA c : ~c.hibernated),
                   LAMBDA c : predictStockout(cats, c.id, t)),
            LAMBDA q : q # NoPrediction)

getAllStockoutPredictions(cats, t) ==
  LET predictions ==
        SelectSeq(MapSeq(SelectSeq(cats, LAMBDA c : ~c.hibernated),
                         LAMBDA c : predictStockout(cats, c.id, t)),
                  LAMBDA q : q # NoPrediction)
  IN StableSort(predictions, MapSeq(predictions, LAMBDA q : q.daysUntilStockout))

DeadStockThreshold == 60

\* Math.floor((now - lastWorn) / one day)
DaysSinceWorn(category, t) == (t - TimeOf(category.lastWornDate)) \div TicksPerDay

detectDeadStock(cats, t) ==
  MapSeq(SelectSeq(cats, LAMBDA c : /\ ~c.hibernated
                                    /\ DaysSinceWorn(c, t) > DeadStockThreshold
                                    /\ c.cleanCount > 0),
         LAMBDA c : [ categoryId |-> c.id, categoryName |-> c.name,
                      daysSinceWorn |-> DaysSinceWorn(c, t),
                      cleanCount |-> c.cleanCount, totalOwned |-> c.totalOwned,
                      isDeadStock |-> TRUE ])

\* the pair <<active, stagnant>> one category adds to the totals
EfficiencyOf(category, t) ==
  LET itemsInUse == category.dirtyCount + category.inLaundryCount
      isDeadStock == DaysSinceWorn(category, t) > DeadStockThreshold
      maxInRotation == IF category.maxBatchSize # 0 THEN category.maxBatchSize
                       ELSE CeilTwoFifths(category.totalOwned)
      cleanInRotation == Min(category.cleanCount, Max(0, maxInRotation - itemsInUse))
      categoryActive == itemsInUse + cleanInRotation
      categoryStagnant == category.totalOwned - categoryActive
  IN IF isDeadStock THEN <<0, category.totalOwned>>
     ELSE <<categoryActive, Max(0, categoryStagnant)>>

calculateInventoryEfficiency(cats, t) ==
  LET parts == MapSeq(ActiveCategories(cats), LAMBDA c : EfficiencyOf(c, t))
      activeItems == SumSeq(MapSeq(parts, LAMBDA x : x[1]))
      stagnantItems == SumSeq(MapSeq(parts, LAMBDA x : x[2]))
      total == activeItems + stagnantItems
  IN [ activeItems |-> activeItems,
       stagnantItems |-> stagnantItems,
       totalItems |-> total,
       efficiencyPercent |-> IF total > 0
                             THEN (2 * activeItems * 100 + total) \div (2 * total)
                             ELSE 100 ]

calculateOptimalInterval(cats, t) ==
  LET active == ActiveCategories(cats)
      bufferDays == MapSeq(active,
         LAMBDA c : IF estimateDailyConsumption(c, t) > 0
                    THEN ((c.cleanCount - c.safetyThreshold) * 30)
                           \div estimateDailyConsumption(c, t)
                    ELSE 14)
  IN IF Len(active) = 0 THEN 7
     ELSE Max(3, Min(14, MinSeq(bufferDays)))

\* variant that also answers "unknown" for a single interval
analyzeLaundryCycles_NeedsTwo(cats, history, t) ==
  LET intervals == calculateLaundryIntervals(history)
      avgInterval == (2 * SumSeq(intervals) + Len(intervals)) \div (2 * Len(intervals))
      minInterval == MinSeq(intervals)
      maxInterval == MaxSeq(intervals)
      range == maxInterval - minInterval
      optimalInterval == calculateOptimalInterval(cats, t)
  IN IF Len(intervals) < 2
     THEN [ intervals |-> <<>>, avgInterval |-> 0, optimalInterval |-> 7,
            consistency |-> "unknown", recommendation |-> <<"start tracking">> ]
     ELSE [ intervals |-> intervals, avgInterval |-> avgInterval,
            optimalInterval |-> optimalInterval,
            consistency |-> IF range <= 3 THEN "excellent"
                            ELSE IF range <= 6 THEN "good" ELSE "poor",
            recommendation |->
               IF range <= 3 THEN <<"great consistency", avgInterval>>
               ELSE IF range <= 6 THEN <<"good routine", optimalInterval>>
               ELSE <<"gaps swing", minInterval, maxInterval, optimalInterval>>,
            minInterval |-> minInterval, maxInterval |-> maxInterval ]

analyzeLaundryCycles(cats, history, t) ==
  LET intervals == calculateLaundryIntervals(history)
      avgInterval == (2 * SumSeq(intervals) + Len(intervals)) \div (2 * Len(intervals))
      minInterval == MinSeq(intervals)
      maxInterval == MaxSeq(intervals)
      range == maxInterval - minInterval
      optimalInterval == calculateOptimalInterval(cats, t)
  IN IF Len(intervals) = 0
     THEN [ intervals |-> <<>>, avgInterval |-> 0, optimalInterval |-> 7,
            consistency |-> "unknown", recommendation |-> <<"start tracking">> ]
     ELSE [ intervals |-> intervals, avgInterval |-> avgInterval,
            optimalInterval |-> optimalInterval,
            consistency |-> IF range <= 3 THEN "excellent"
                            ELSE IF range <= 6 THEN "good" ELSE "poor",
            recommendation |->
               IF range <= 3 THEN <<"great consistency", avgInterval>>
               ELSE IF range <= 6 THEN <<"good routine", optimalInterval>>
               ELSE <<"gaps swing", minInterval, maxInterval, optimalInterval>>,
            minInterval |-> minInterval, maxInterval |-> maxInterval ]

NoImbalance == [none |-> TRUE]

detectImbalance(cats) ==
  LET active == ActiveCategories(cats)
      cleanCounts == MapSeq(active, LAMBDA c : c.cleanCount)
      maxClean == MaxSeq(cleanCounts)
      minClean == MinSeq(cleanCounts)
      first(v) == active[CHOOSE i \in 1..Len(active) :
                           /\ active[i].cleanCount = v
                           /\ \A j \in 1..(i - 1) : active[j].cleanCount # v]
  IN IF Len(active) < 2 THEN NoImbalance
     ELSE IF maxClean > 5 /\ minClean < 3
     THEN [message |-> <<maxClean, first(maxClean).name, minClean, first(minClean).name>>]
     ELSE NoImbalance

NoPanicDay == [none |-> TRUE]

predictPanicDay(cats, t) ==
  LET stockouts == getAllStockoutPredictions(cats, t)
      urgent == SelectSeq(stockouts, LAMBDA q : q.daysUntilStockout <= 3)
  IN IF Len(urgent) > 0
     THEN [day |-> formatDay(urgent[1].stockoutDate), category |-> urgent[1].categoryName]
     ELSE NoPanicDay

Insight(urgency, type, message) ==
  [id |-> 0, urgency |-> urgency, type |-> type, message |-> message]

UrgencyOrder(urgency) ==
  CASE urgency = "critical" -> 0
    [] urgency = "warning" -> 1
    [] urgency = "insight" -> 2

\* the insights in the order in which generateInsights pushes them
GeneratedInsights(cats, history, t) ==
  LET stockouts == SelectSeq(getAllStockoutPredictions(cats, t),
                             LAMBDA q : q.severity # "normal")
      bottlenecks == MapSeq(stockouts,
         LAMBDA q : Insight(q.severity, "bottleneck",
                            <<q.categoryName, q.currentClean, formatDay(q.stockoutDate)>>))
      efficiency == calculateInventoryEfficiency(cats, t)
      deadStock == detectDeadStock(cats, t)
      lowUse == IF efficiency.stagnantItems > 5
                THEN <<Insight("warning", "deadstock",
                         IF Len(deadStock) > 0
                         THEN <<deadStock[1].totalOwned, deadStock[1].categoryName,
                                efficiency.stagnantItems>>
                         ELSE <<efficiency.stagnantItems>>)>>
                ELSE <<>>
      imbalance == IF detectImbalance(cats) # NoImbalance
                   THEN <<Insight("warning", "imbalance", detectImbalance(cats).message)>>
                   ELSE <<>>
      cycleAnalysis == analyzeLaundryCycles(cats, history, t)
      routine == IF cycleAnalysis.consistency = "poor"
                 THEN <<Insight("insight", "procrastination", cycleAnalysis.recommendation)>>
                 ELSE <<>>
      panicDay == predictPanicDay(cats, t)
      forecast == IF panicDay # NoPanicDay
                  THEN <<Insight("critical", "forecast", <<panicDay.category, panicDay.day>>)>>
                  ELSE <<>>
      pushed == bottlenecks \o lowUse \o imbalance \o routine \o forecast
  IN [i \in 1..Len(pushed) |-> [pushed[i] EXCEPT !.id = i]]

\* variant: the list is returned in the order of generation
generateInsights_Unsorted(cats, history, t) == GeneratedInsights(cats, history, t)

generateInsights(cats, history, t) ==
  LET insights == GeneratedInsights(cats, history, t)
  IN StableSort(insights, MapSeq(insights, LAMBDA x : UrgencyOrder(x.urgency)))

(***************************************************************************)
(* SpecT: the transition functions applied to a category collection.       *)
(***************************************************************************)
InitT ==
  /\ categories = <<>>
  /\ batches = <<>>
  /\ laundryHistory = <<>>
  /\ bagContents = NoBag
  /\ bagCount = 0
  /\ isLoading = FALSE
  /\ now = StartNow
  /\ nextId = 1
  /\ last = Op("init", 0, 0, NoBag)
  /\ result = 0

\* MaxCalls bounds the number of calls of a run
TFrame ==
  /\ last.n < MaxCalls
  /\ UNCHANGED <<batches, laundryHistory, bagContents, bagCount,
                 isLoading, now, result>>

TCreate ==
  \E name \in Names, total \in 0..MaxOwned :
     /\ Len(categories) < MaxCats
     /\ categories' = Append(categories, createDefaultCategory(nextId, name, total))
     /\ nextId' = nextId + 1
     /\ last' = Op("create", nextId, total, NoBag)
     /\ TFrame

TToss ==
  \E id \in Ids(categories), count \in 0..MaxArg :
     /\ WearEntries(categories) < MaxWear
     /\ categories' = processItemToss(categories, id, count, now)
     /\ last' = Op("toss", id, count, NoBag)
     /\ UNCHANGED nextId
     /\ TFrame

TAcquire ==
  \E id \in Ids(categories), count \in 0..MaxArg :
     /\ categories' = processItemAcquisition(categories, id, count)
     /\ Bounded(categories')
     /\ last' = Op("acquire", id, count, NoBag)
     /\ UNCHANGED nextId
     /\ TFrame

TRetire ==
  \E id \in Ids(categories), count \in 0..MaxArg :
     /\ categories' = processItemRetirement(categories, id, count)
     /\ last' = Op("retire", id, count, NoBag)
     /\ UNCHANGED nextId
     /\ TFrame

TDispatch ==
  \E bag \in BagObjects :
     /\ categories' = processBatchDispatch(categories, bag)
     /\ Bounded(categories')
     /\ last' = Op("dispatch", 0, 0, bag)
     /\ UNCHANGED nextId
     /\ TFrame

TComplete ==
  \E contents \in BagObjects :
     /\ categories' = processBatchComplete(categories, contents)
     /\ Bounded(categories')
     /\ last' = Op("complete", 0, 0, contents)
     /\ UNCHANGED nextId
     /\ TFrame

NextT == TCreate \/ TToss \/ TAcquire \/ TRetire \/ TDispatch \/ TComplete

SpecT == InitT /\ [][NextT]_vars

(***************************************************************************)
(* SpecR: the transition functions applied to a collection whose first     *)
(* category is drawn from the conserved records (cleanCount + dirtyCount + *)
(* inLaundryCount = totalOwned, each count in 0..MaxCount), as an earlier  *)
(* session may have stored it.                                             *)
(***************************************************************************)
ConservedCategories(id) ==
  {RawCategory(id, name, clean + dirty + laundry, clean, dirty, laundry) :
     name \in Names, clean \in 0..MaxCount, dirty \in 0..MaxCount,
     laundry \in 0..MaxCount}

InitR ==
  /\ \E c \in ConservedCategories(1) : categories = <<c>>
  /\ batches = <<>>
  /\ laundryHistory = <<>>
  /\ bagContents = NoBag
  /\ bagCount = 0
  /\ isLoading = FALSE
  /\ now = StartNow
  /\ nextId = 2
  /\ last = Op("init", 0, 0, NoBag)
  /\ result = 0

SpecR == InitR /\ [][NextT]_vars

(***************************************************************************)
(* SpecB: one laundry cycle of the provider.  The collection holds one     *)
(* category as an earlier session stored it (its counts sum to totalOwned, *)
(* nothing in the laundry) and the hamper holds a quantity staged under    *)
(* its name by addToBag.                                                   *)
(***************************************************************************)
InitB ==
  /\ \E c \in ConservedCategories(1), q \in 1..MaxArg :
        /\ c.totalOwned \in 1..MaxOwned
        /\ c.inLaundryCount = 0
        /\ categories = <<c>>
        /\ bagContents = [n \in {c.name} |-> q]
        /\ bagCount = q
  /\ batches = <<>>
  /\ laundryHistory = <<>>
  /\ isLoading = FALSE
  /\ now = StartNow
  /\ nextId = 3
  /\ last = Op("init", 0, 0, NoBag)
  /\ result = 0

NextB ==
  \/ dispatchLaundry
  \/ completeBatch
  \/ tossItem
  \/ acquireItem
  \/ retireItem

SpecB == InitB /\ [][NextB]_vars

(***************************************************************************)
(* SpecO: creation, acquisition and retirement applied to a collection     *)
(* whose first category was created with 0..BigStock items.                *)
(***************************************************************************)
InitO ==
  /\ \E name \in Names, total \in 0..BigStock :
        categories = <<createDefaultCategory(1, name, total)>>
  /\ batches = <<>>
  /\ laundryHistory = <<>>
  /\ bagContents = NoBag
  /\ bagCount = 0
  /\ isLoading = FALSE
  /\ now = StartNow
  /\ nextId = 2
  /\ last = Op("init", 0, 0, NoBag)
  /\ result = 0

NextO == TCreate \/ TAcquire \/ TRetire

SpecO == InitO /\ [][NextO]_vars

(***************************************************************************)
(* Claims on the thresholds (SpecO).                                       *)
(***************************************************************************)
\* C14 as stated: a category with totalOwned > 0 has safetyThreshold =
\* max(2, ceil(totalOwned * 0.2)) and maxBatchSize =
\* max(2, ceil(totalOwned * 0.4)) after its creation and after every
\* acquire or retire.
C14_ThresholdsAtLeastTwo ==
  \A i \in 1..Len(categories) :
     LET c == categories[i]
     IN c.totalOwned > 0 =>
          /\ c.safetyThreshold = Max(2, CeilFifth(c.totalOwned))
          /\ c.maxBatchSize = Max(2, CeilTwoFifths(c.totalOwned))

\* C14 as amended: a category with totalOwned > 0 has safetyThreshold =
\* ceil(totalOwned * 0.2) and maxBatchSize = ceil(totalOwned * 0.4), without
\* a minimum of 2; a category with totalOwned = 0 has 2 for both.
C14_ThresholdsCeil ==
  \A i \in 1..Len(categories) :
     LET c == categories[i]
     IN IF c.totalOwned > 0
        THEN /\ 5 * (c.safetyThreshold - 1) < c.totalOwned
             /\ c.totalOwned <= 5 * c.safetyThreshold
             /\ 5 * (c.maxBatchSize - 1) < 2 * c.totalOwned
             /\ 2 * c.totalOwned <= 5 * c.maxBatchSize
        ELSE c.safetyThreshold = 2 /\ c.maxBatchSize = 2

\* a retirement has left a category with 6 items: its safetyThreshold is 2
\* and its maxBatchSize 3
C14_Witness ==
  /\ last.op = "retire"
  /\ \E i \in 1..Len(categories) :
        /\ categories[i].id = last.id
        /\ categories[i].totalOwned = 6
        /\ categories[i].safetyThreshold = 2
        /\ categories[i].maxBatchSize = 3

(***************************************************************************)
(* Claims on the transition functions (SpecT, SpecR).                      *)
(***************************************************************************)
Conserved(cat) ==
  /\ cat.cleanCount + cat.dirtyCount + cat.inLaundryCount = cat.totalOwned
  /\ cat.cleanCount >= 0
  /\ cat.dirtyCount >= 0
  /\ cat.inLaundryCount >= 0

\* C1: after any sequence of transition calls every category has
\* cleanCount + dirtyCount + inLaundryCount = totalOwned with all three >= 0.
C1_Conservation ==
  \A i \in 1..Len(categories) : Conserved(categories[i])

C5_RetirementPriority ==
  [][last'.op = "retire" /\ Len(categories') = Len(categories) =>
       \A i \in 1..Len(categories) :
          LET c == categories[i]
              q == categories'[i]
              r == Min(last'.count, c.totalOwned)
              dClean == c.cleanCount - q.cleanCount
              dDirty == c.dirtyCount - q.dirtyCount
              dLaundry == c.inLaundryCount - q.inLaundryCount
          IN IF c.id = last'.id
             THEN /\ q.totalOwned = c.totalOwned - r
                  /\ q.totalOwned >= 0
                  /\ dClean >= 0 /\ dDirty >= 0 /\ dLaundry >= 0
                  /\ dClean + dDirty + dLaundry = r
                  /\ dDirty > 0 => q.cleanCount = 0
                  /\ dLaundry > 0 => q.cleanCount = 0 /\ q.dirtyCount = 0
             ELSE q = c]_vars

MovedFromClean(pre, cats, name) ==
  LET moved == [i \in 1..Len(pre) |->
                  IF pre[i].name = name /\ HasId(cats, pre[i].id)
                  THEN pre[i].cleanCount - FindById(cats, pre[i].id).cleanCount
                  ELSE 0]
  IN SumOver(moved, DOMAIN moved)

\* C2: completing a batch right after its dispatch restores every category's
\* dirtyCount, inLaundryCount and cleanCount to their values before the
\* dispatch.
C2_CompleteInvertsDispatch ==
  (last.op = "complete" /\ last.pre # <<>>) =>
     \A i \in 1..Len(last.pre) :
        HasId(categories, last.pre[i].id) =>
           LET q == FindById(categories, last.pre[i].id)
           IN /\ q.dirtyCount = last.pre[i].dirtyCount
              /\ q.inLaundryCount = last.pre[i].inLaundryCount
              /\ q.cleanCount = last.pre[i].cleanCount

\* C4: the batch created by dispatchLaundry records for every category name
\* exactly the number of items that the dispatch removed from cleanCount.
C4_BatchRecordsMoved ==
  (last.op = "dispatch" /\ last.id # 0) =>
     \A name \in Names :
        Get(FindById(batches, last.id).contents, name)
          = MovedFromClean(last.pre, categories, name)

(***************************************************************************)
(* SpecV: the consistency repair applied to stored category collections,   *)
(* including negative counts and counts that do not add up.                *)
(***************************************************************************)
RawCounts == (-1)..MaxRaw

RawCollections ==
  LET one(id, name) ==
        {RawCategory(id, name, total, clean, dirty, laundry) :
           total \in RawCounts, clean \in RawCounts,
           dirty \in RawCounts, laundry \in RawCounts}
  IN {<<c>> : c \in one(1, "Socks")}
       \cup {<<c, d>> : c \in one(1, "Socks"), d \in one(2, "Shirts")}

InitV ==
  /\ categories \in RawCollections
  /\ batches = <<>>
  /\ laundryHistory = <<>>
  /\ bagContents = NoBag
  /\ bagCount = 0
  /\ isLoading = TRUE
  /\ now = StartNow
  /\ nextId = 3
  /\ last = Op("init", 0, 0, NoBag)
  /\ result = 0

\* the repair is applied to the stored collection, and once more to its result
Validate ==
  /\ last.op \in {"init", "validated"}
  /\ categories' = validateAndFixCategoryConsistency(categories)
  /\ last' = OpPre(IF last.op = "init" THEN "validated" ELSE "revalidated",
                   0, 0, NoBag,
                   [raw |-> IF last.op = "init" THEN categories ELSE last.pre.raw,
                    before |-> categories])
  /\ UNCHANGED <<batches, laundryHistory, bagContents, bagCount, isLoading,
                 now, nextId, result>>

NextV == Validate

SpecV == InitV /\ [][NextV]_vars

\* C6: the repaired collection has all counts >= 0 and conserved sums, and
\* repairing it a second time changes nothing.
C6_IdempotentRepair ==
  /\ last.op \in {"validated", "revalidated"} =>
        \A i \in 1..Len(categories) : Conserved(categories[i])
  /\ last.op = "revalidated" => categories = last.pre.before

\* a stored collection with a negative count and a sum that is off has been
\* repaired twice
C6_Witness ==
  /\ last.op = "revalidated"
  /\ \E i \in 1..Len(last.pre.raw) :
        /\ last.pre.raw[i].cleanCount < 0
        /\ last.pre.raw[i].dirtyCount + last.pre.raw[i].inLaundryCount
             # last.pre.raw[i].totalOwned
        /\ last.pre.raw[i].inLaundryCount > 0
        /\ categories[i] # last.pre.raw[i]

(***************************************************************************)
(* SpecA: the analytics engine applied to a snapshot.  The snapshot is     *)
(* drawn from category collections of one or two categories (small and     *)
(* large stocks, worn or never worn, with or without a wear history that   *)
(* is long enough to estimate the consumption) and from laundry histories  *)
(* of up to three completions.                                             *)
(***************************************************************************)
\* pairs <<totalOwned, cleanCount>>
SnapStock == {<<0, 0>>, <<MaxOwned, 0>>, <<MaxOwned, MaxOwned>>,
              <<BigStock, 0>>, <<BigStock, BigStock>>}

\* n wear events of the last day
RecentWears(n, t) == [i \in 1..n |-> [date |-> t - 1, count |-> 1]]

\* never worn; worn yesterday; worn yesterday with a history of ManyWears events
SnapUse(t) ==
  { [lastWornDate |-> NullDate, wearHistory |-> <<>>],
    [lastWornDate |-> t - TicksPerDay, wearHistory |-> <<>>],
    [lastWornDate |-> t - 1, wearHistory |-> RecentWears(ManyWears, t)] }

SnapCategory(id, t) ==
  { [createDefaultCategory(id, name, stock[1]) EXCEPT
        !.cleanCount = stock[2],
        !.dirtyCount = stock[1] - stock[2],
        !.hibernated = hibernated,
        !.lastWornDate = use.lastWornDate,
        !.wearHistory = use.wearHistory] :
      name \in Names, stock \in SnapStock, hibernated \in BOOLEAN, use \in SnapUse(t) }

SnapCategories(t) ==
  {<<>>} \cup {<<c>> : c \in SnapCategory(1, t)}
         \cup {<<c, d>> : c \in SnapCategory(1, t), d \in SnapCategory(2, t)}

Completed(id, t) ==
  [createBatch(id, [n \in {"Socks"} |-> 1], t) EXCEPT
      !.status = "completed", !.completedAt = t]

\* gaps between completions, in ticks
SnapGaps == {1, LongGap}

SnapHistories(t) ==
  {<<>>, <<Completed(1, t)>>}
    \cup {<<Completed(1, t - a - b), Completed(2, t - b), Completed(3, t)>> :
            a \in SnapGaps, b \in SnapGaps}

NoResult == [fn |-> "none"]

InitA ==
  /\ now = StartNow
  /\ categories \in SnapCategories(StartNow)
  /\ laundryHistory \in SnapHistories(StartNow)
  /\ batches = <<>>
  /\ bagContents = NoBag
  /\ bagCount = 0
  /\ isLoading = FALSE
  /\ nextId = 3
  /\ last = Op("init", 0, 0, NoBag)
  /\ result = NoResult

AFrame == UNCHANGED <<categories, batches, laundryHistory, bagContents,
                      bagCount, isLoading, now, nextId, last>>

AFlowScore ==
  /\ result = NoResult
  /\ result' = [fn |-> "calculateFlowScore",
                value |-> calculateFlowScore(categories, laundryHistory)]
  /\ AFrame

APredictStockout ==
  /\ result = NoResult
  /\ \E id \in 1..MaxCats :
        result' = [fn |-> "predictStockout", id |-> id,
                   value |-> predictStockout(categories, id, now)]
  /\ AFrame

AEfficiency ==
  /\ result = NoResult
  /\ result' = [fn |-> "calculateInventoryEfficiency",
                value |-> calculateInventoryEfficiency(categories, now)]
  /\ AFrame

AInsights ==
  /\ result = NoResult
  /\ result' = [fn |-> "generateInsights",
                value |-> generateInsights(categories, laundryHistory, now)]
  /\ AFrame

AAllStockouts ==
  /\ result = NoResult
  /\ result' = [fn |-> "getAllStockoutPredictions",
                value |-> getAllStockoutPredictions(categories, now)]
  /\ AFrame

NextA ==
  \/ AFlowScore
  \/ APredictStockout
  \/ AEfficiency
  \/ AInsights
  \/ AAllStockouts

SpecA == InitA /\ [][NextA]_vars

(***************************************************************************)
(* SpecC: the laundry cycle analysis on histories of up to three completed *)
(* batches whose completions lie no time, half a day, MidGap, LongGap or   *)
(* MonthGap ticks apart.                                                   *)
(***************************************************************************)
CycleGaps == {0, 1, MidGap, LongGap, MonthGap}

CycleHistories(t) ==
  {<<>>, <<Completed(1, t)>>}
    \cup {<<Completed(1, t - a), Completed(2, t)>> : a \in CycleGaps}
    \cup {<<Completed(2, t - b), Completed(1, t - a - b), Completed(3, t)>> :
            a \in CycleGaps, b \in CycleGaps}

InitC ==
  /\ now = StartNow
  /\ categories \in HamperCollections
  /\ laundryHistory \in CycleHistories(StartNow)
  /\ batches = <<>>
  /\ bagContents = NoBag
  /\ bagCount = 0
  /\ isLoading = FALSE
  /\ nextId = 4
  /\ last = Op("init", 0, 0, NoBag)
  /\ result = NoResult

ACycles ==
  /\ result = NoResult
  /\ result' = [fn |-> "analyzeLaundryCycles",
                value |-> analyzeLaundryCycles(categories, laundryHistory, now)]
  /\ AFrame

SpecC == InitC /\ [][ACycles]_vars

(***************************************************************************)
(* SpecS: the same queries on snapshots of up to three categories drawn    *)
(* for the stockout forecast: no, some or much clean stock, hibernated or  *)
(* not, never worn or with a wear history that has no event in the last    *)
(* 30 days (a consumption of 0).                                           *)
(***************************************************************************)
\* n wear events of more than 30 days ago
OldWears(n, t) == [i \in 1..n |-> [date |-> t - 31 * TicksPerDay, count |-> 1]]

ForecastCategory(id, names, t) ==
  { [createDefaultCategory(id, name, clean) EXCEPT
        !.hibernated = hibernated,
        !.wearHistory = wears] :
      name \in names, clean \in {0, MaxOwned, BigStock},
      hibernated \in BOOLEAN, wears \in {<<>>, OldWears(ManyWears, t)} }

ForecastCategories(t) ==
  {<<>>} \cup {<<c>> : c \in ForecastCategory(1, Names, t)}
         \cup {<<c, d>> : c \in ForecastCategory(1, Names, t),
                          d \in ForecastCategory(2, Names, t)}
         \cup {<<c, d, e>> : c \in ForecastCategory(1, Names, t),
                             d \in ForecastCategory(2, Names, t),
                             e \in ForecastCategory(3, {"Jeans"}, t)}

InitS ==
  /\ now = StartNow
  /\ categories \in ForecastCategories(StartNow)
  /\ laundryHistory = <<>>
  /\ batches = <<>>
  /\ bagContents = NoBag
  /\ bagCount = 0
  /\ isLoading = FALSE
  /\ nextId = 4
  /\ last = Op("init", 0, 0, NoBag)
  /\ result = NoResult

SpecS == InitS /\ [][NextA]_vars

(***************************************************************************)
(* Claims on the analytics engine (SpecA).                                 *)
(***************************************************************************)
\* C7: the flow score is an integer between 0 and 100, and it is 0 when no
\* category is non-hibernated with totalOwned > 0.
C7_FlowScoreBounds ==
  result.fn = "calculateFlowScore" =>
     /\ result.value \in 0..100
     /\ (\A i \in 1..Len(categories) :
            categories[i].hibernated \/ categories[i].totalOwned <= 0)
          => result.value = 0

\* a score of 0 for active categories whose weighted sum is negative
C7_Witness ==
  /\ result.fn = "calculateFlowScore"
  /\ result.value = 0
  /\ Len(ActiveCategories(categories)) = 2
  /\ FlowRawScore(categories, laundryHistory) < -100000

\* the position of an insight type in the scan of generateInsights
ScanOrder(type) ==
  CASE type = "bottleneck" -> 1
    [] type = "deadstock" -> 2
    [] type = "imbalance" -> 3
    [] type = "procrastination" -> 4
    [] type = "forecast" -> 5

\* C8: in the list of generateInsights critical entries precede warnings and
\* warnings precede insight entries; entries of equal urgency keep the order
\* of the scan (bottleneck, dead stock, imbalance, routine, forecast).
C8_InsightOrdering ==
  result.fn = "generateInsights" =>
     \A i \in 1..Len(result.value) : \A j \in (i + 1)..Len(result.value) :
        LET a == result.value[i]
            b == result.value[j]
        IN /\ UrgencyOrder(a.urgency) <= UrgencyOrder(b.urgency)
           /\ a.urgency = b.urgency =>
                /\ ScanOrder(a.type) <= ScanOrder(b.type)
                /\ a.id < b.id

\* a list with a critical forecast, pushed last, ahead of three warnings and
\* of the routine insight
C8_Witness ==
  /\ result.fn = "generateInsights"
  /\ Len(result.value) = 5
  /\ result.value[1].type = "forecast"
  /\ result.value[2].type = "bottleneck"
  /\ result.value[3].type = "deadstock"
  /\ result.value[4].type = "imbalance"
  /\ result.value[5].type = "procrastination"

EmptyEfficiency ==
  [activeItems |-> 0, stagnantItems |-> 0, totalItems |-> 0, efficiencyPercent |-> 100]

\* C9: with an empty categories list, whatever the laundry history, the flow
\* score is 0, generateInsights returns the empty list and the inventory
\* efficiency is {0, 0, 0, 100}.
C9_EmptySnapshot ==
  categories = <<>> =>
     /\ result.fn = "calculateFlowScore" => result.value = 0
     /\ result.fn = "generateInsights" => result.value = <<>>
     /\ result.fn = "calculateInventoryEfficiency" => result.value = EmptyEfficiency

\* C9 as amended: with an empty categories list the flow score is 0 and the
\* efficiency is {0, 0, 0, 100}; generateInsights returns the routine
\* insight alone when the laundry cycles are classified poor, and the empty
\* list otherwise.
C9_EmptySnapshotAmended ==
  categories = <<>> =>
     /\ result.fn = "calculateFlowScore" => result.value = 0
     /\ result.fn = "calculateInventoryEfficiency" => result.value = EmptyEfficiency
     /\ result.fn = "generateInsights" =>
          IF analyzeLaundryCycles(categories, laundryHistory, now).consistency = "poor"
          THEN /\ Len(result.value) = 1
               /\ result.value[1].type = "procrastination"
               /\ result.value[1].urgency = "insight"
          ELSE result.value = <<>>

\* no category, a laundry history with uneven gaps: one routine insight
C9_Witness ==
  /\ categories = <<>>
  /\ result.fn = "generateInsights"
  /\ Len(result.value) = 1
  /\ Len(laundryHistory) = 3

\* C10: the severity of a prediction is critical exactly when the returned
\* daysUntilStockout is <= 2, warning exactly when it is > 2 and <= 5, and
\* normal otherwise.
C10_SeverityOfReturnedDays ==
  (result.fn = "predictStockout" /\ result.value # NoPrediction) =>
     LET days == result.value.daysUntilStockout
     IN /\ result.value.severity = "critical" <=> days <= 2
        /\ result.value.severity = "warning" <=> (days > 2 /\ days <= 5)
        /\ result.value.severity = "normal" <=> days > 5

\* C10 as amended: the severity is critical exactly when cleanCount divided
\* by the daily consumption is <= 2, warning exactly when that quotient is
\* > 2 and <= 5, and normal otherwise; the returned daysUntilStockout is the
\* quotient rounded down.
C10_SeverityOfExactDays ==
  (result.fn = "predictStockout" /\ result.value # NoPrediction) =>
     LET category == FindById(categories, result.id)
         rate == estimateDailyConsumption(category, now)
         clean == category.cleanCount * 30
     IN /\ rate > 0
        /\ result.value.severity = "critical" <=> clean <= 2 * rate
        /\ result.value.severity = "warning" <=> (clean > 2 * rate /\ clean <= 5 * rate)
        /\ result.value.severity = "normal" <=> clean > 5 * rate
        /\ result.value.daysUntilStockout * rate <= clean
        /\ clean < (result.value.daysUntilStockout + 1) * rate

\* a prediction of 2 days (rounded down from 2.86) with severity warning
C10_Witness ==
  /\ result.fn = "predictStockout"
  /\ result.value # NoPrediction
  /\ result.value.daysUntilStockout = 2
  /\ result.value.severity = "warning"

(***************************************************************************)
(* Claims on the stockout forecast list (SpecS).                           *)
(***************************************************************************)
\* the positions of the list that hold the prediction of category id
PredictionsOf(list, id) == {j \in 1..Len(list) : list[j].categoryId = id}

\* C11: getAllStockoutPredictions returns exactly one prediction for each
\* non-hibernated category whose predictStockout is not null, none for any
\* other category, in non-decreasing order of daysUntilStockout.
C11_AllStockouts ==
  result.fn = "getAllStockoutPredictions" =>
     LET list == result.value
     IN /\ \A i \in 1..Len(categories) :
              LET c == categories[i]
                  p == predictStockout(categories, c.id, now)
              IN IF ~c.hibernated /\ p # NoPrediction
                 THEN /\ Cardinality(PredictionsOf(list, c.id)) = 1
                      /\ \A j \in PredictionsOf(list, c.id) : list[j] = p
                 ELSE PredictionsOf(list, c.id) = {}
        /\ \A j \in 1..Len(list) : list[j].categoryId \in Ids(categories)
        /\ \A j \in 1..(Len(list) - 1) :
              list[j].daysUntilStockout <= list[j + 1].daysUntilStockout

\* three categories: the first has more days left than the second and comes
\* after it in the list, the third has a consumption of 0 and is left out
C11_Witness ==
  /\ result.fn = "getAllStockoutPredictions"
  /\ Len(categories) = 3
  /\ ~categories[3].hibernated
  /\ Len(result.value) = 2
  /\ result.value[1].categoryId = 2
  /\ result.value[2].categoryId = 1
  /\ result.value[1].daysUntilStockout < result.value[2].daysUntilStockout

C15_DispatchCreatesBatch ==
  [][(/\ last'.op = "dispatch"
      /\ last'.n = last.n + 1
      /\ bagCount >= 1
      /\ \A name \in DOMAIN bagContents :
            /\ name \in NamesOf(categories)
            /\ bagContents[name] <= FindByName(categories, name).cleanCount)
       => /\ Len(batches') = Len(batches) + 1
          /\ batches'[Len(batches')].status = "in_progress"
          /\ batches'[Len(batches')].contents = bagContents
          /\ \A name \in DOMAIN bagContents :
                MovedFromClean(categories, categories', name) = bagContents[name]
          /\ bagContents' = NoBag
          /\ bagCount' = 0]_vars

(***************************************************************************)
(* C16: every batch in the batches list has totalItems >= 1, every value   *)
(* of its contents is a positive integer, and totalItems is the sum of the *)
(* values of its contents.                                                 *)
(***************************************************************************)
C16_BatchWellFormed ==
  \A k \in 1..Len(batches) :
     LET b == batches[k]
     IN /\ b.totalItems >= 1
        /\ \A name \in DOMAIN b.contents :
              b.contents[name] \in Nat \ {0}
        /\ b.totalItems = SumValues(b.contents)

\* a dispatch has just created a batch out of a bag with two names, one of
\* which was cut down by the validation
C16_Witness ==
  /\ last.op = "dispatch"
  /\ Len(batches) >= 1
  /\ batches[Len(batches)].id = last.id
  /\ Cardinality(DOMAIN last.bag) = 2
  /\ SumValues(last.bag) > batches[Len(batches)].totalItems

C18_HamperBound ==
  [][(last'.op = "dispatch" /\ last'.n = last.n + 1)
       => \A name \in DOMAIN bagContents :
             /\ name \in NamesOf(categories)
             /\ bagContents[name] <= FindByName(categories, name).dirtyCount]_vars

(***************************************************************************)
(* C19: removeCategory(id) removes the category with that id and leaves    *)
(* the other categories as they are; the hamper entry under the removed    *)
(* category's name is deleted, the staged total drops by exactly the       *)
(* quantity q that entry held, and the other hamper entries are unchanged. *)
(***************************************************************************)
C19_RemoveCategoryFrame ==
  [][(last'.op = "removeCategory" /\ last'.n = last.n + 1)
       => LET id == last'.id
              name == FindById(categories, id).name
              q == Get(bagContents, name)
          IN /\ ~HasId(categories', id)
             /\ Len(categories') = Len(categories) - 1
             /\ \A other \in Ids(categories) \ {id} :
                   /\ HasId(categories', other)
                   /\ FindById(categories', other) = FindById(categories, other)
             /\ DOMAIN bagContents' = DOMAIN bagContents \ {name}
             /\ \A n \in DOMAIN bagContents' : bagContents'[n] = bagContents[n]
             /\ bagCount' = bagCount - q]_vars

\* a category with staged items has been removed while the entry of another
\* category stayed in the hamper
C19_Witness ==
  /\ last.op = "removeCategory"
  /\ Cardinality(DOMAIN last.bag) = 2
  /\ Cardinality(DOMAIN bagContents) = 1
  /\ Len(categories) = 1
  /\ bagCount = SumValues(bagContents)
  /\ bagCount < SumValues(last.bag)

(***************************************************************************)
(* C20: no two categories of the collection have the same name.            *)
(***************************************************************************)
C20_NamesUnique ==
  \A i, j \in 1..Len(categories) :
     categories[i].name = categories[j].name => i = j

(***************************************************************************)
(* C21: a call of tossItem, acquireItem, retireItem or addToBag with a     *)
(* negative count leaves every count of every category and every hamper   *)
(* quantity >= 0; such an acquire lowers no totalOwned and such a retire   *)
(* raises none.                                                            *)
(***************************************************************************)
C21_NegativeCountsNeutralised ==
  [][(last'.n = last.n + 1 /\ last'.count < 0)
       => /\ \A i \in 1..Len(categories') :
               /\ categories'[i].totalOwned >= 0
               /\ categories'[i].cleanCount >= 0
               /\ categories'[i].dirtyCount >= 0
               /\ categories'[i].inLaundryCount >= 0
          /\ \A name \in DOMAIN bagContents' : bagContents'[name] >= 0
          /\ bagCount' >= 0
          /\ \A i \in 1..Len(categories) :
               HasId(categories', categories[i].id)
                 => LET after == FindById(categories', categories[i].id).totalOwned
                    IN /\ last'.op = "acquire" => after >= categories[i].totalOwned
                       /\ last'.op = "retire" => after <= categories[i].totalOwned]_vars

(***************************************************************************)
(* C22: when loading is over, a slice whose stored JSON cannot be parsed   *)
(* has its default empty value, every other slice has the value that was   *)
(* stored for it, and isLoading is false.                                  *)
(***************************************************************************)
C22_CorruptionIsolated ==
  (last.op = "load" /\ \E k \in DOMAIN result.stored : result.stored[k].kind = "corrupt")
    => LET s == result.stored
       IN /\ ~isLoading
          /\ s.categories.kind = "corrupt" => categories = <<>>
          /\ s.batches.kind = "corrupt" => batches = <<>>
          /\ s.laundryHistory.kind = "corrupt" => laundryHistory = <<>>
          /\ s.bagContents.kind = "corrupt" => bagContents = NoBag /\ bagCount = 0
          /\ s.categories.kind = "ok"
               => categories = validateAndFixCategoryConsistency(s.categories.value)
          /\ s.batches.kind = "ok" => batches = s.batches.value
          /\ s.laundryHistory.kind = "ok" => laundryHistory = s.laundryHistory.value
          /\ s.bagContents.kind = "ok" => bagContents = s.bagContents.value

(***************************************************************************)
(* C23: after every mutating action of the provider (toss, acquire,        *)
(* retire, dispatch, complete, addCategory, removeCategory, hibernation    *)
(* update) the collection holds no category with totalOwned = 0.           *)
(***************************************************************************)
C23_ZeroOwnedPruned ==
  [][(/\ last'.n = last.n + 1
      /\ last'.op \in {"toss", "acquire", "retire", "dispatch", "complete",
                       "addCategory", "removeCategory", "hibernate"})
       => \A i \in 1..Len(categories') : categories'[i].totalOwned # 0]_vars

(***************************************************************************)
(* C25.  The valid intervals of a history are the whole-day gaps d between *)
(* consecutive completions in time order with 0 < d < 30.                  *)
(***************************************************************************)
\* the valid intervals of laundryHistory, computed from the completion times
\* by their positions in time order, and the class of their range
CycleExpected ==
  LET times == [i \in 1..Len(laundryHistory) |-> laundryHistory[i].completedAt]
      rank(i) == Cardinality({j \in 1..Len(times) :
                                \/ times[j] < times[i]
                                \/ times[j] = times[i] /\ j < i}) + 1
      at(k) == times[CHOOSE i \in 1..Len(times) : rank(i) = k]
      gaps == [k \in 1..(Len(times) - 1) |->
                 (2 * (at(k + 1) - at(k)) + TicksPerDay) \div (2 * TicksPerDay)]
      valid == SelectSeq(gaps, LAMBDA d : 0 < d /\ d < 30)
      days == {valid[k] : k \in 1..Len(valid)}
      range == (CHOOSE x \in days : \A y \in days : y <= x)
                 - (CHOOSE x \in days : \A y \in days : x <= y)
  IN [ intervals |-> valid,
       consistency |-> IF valid = <<>> THEN "none"
                       ELSE IF range <= 3 THEN "excellent"
                       ELSE IF range <= 6 THEN "good" ELSE "poor" ]

\* C25 as stated: with fewer than 2 valid intervals the analysis answers
\* "unknown" with optimalInterval 7; with 2 or more it classifies by the
\* range of the intervals.
C25_UnknownBelowTwo ==
  result.fn = "analyzeLaundryCycles"
    => IF Len(CycleExpected.intervals) < 2
       THEN /\ result.value.consistency = "unknown"
            /\ result.value.optimalInterval = 7
       ELSE result.value.consistency = CycleExpected.consistency

\* C25 amended: the analysis answers "unknown" with optimalInterval 7
\* exactly when there is no valid interval; with 1 or more valid intervals
\* it classifies by the range of the intervals (a single interval has range
\* 0 and is "excellent").
C25_UnknownWithoutInterval ==
  result.fn = "analyzeLaundryCycles"
    => IF Len(CycleExpected.intervals) = 0
       THEN /\ result.value.consistency = "unknown"
            /\ result.value.optimalInterval = 7
            /\ result.value.intervals = <<>>
       ELSE /\ result.value.consistency = CycleExpected.consistency
            /\ result.value.intervals = CycleExpected.intervals

\* the analysis of a history with exactly one valid interval
C25_Witness ==
  /\ result.fn = "analyzeLaundryCycles"
  /\ Len(CycleExpected.intervals) = 1
  /\ Len(laundryHistory) = 3
  /\ result.value.consistency = "excellent"

(***************************************************************************)
(* C24: on every collection reached through the transition functions the   *)
(* efficiency has activeItems + stagnantItems = totalItems = the sum of    *)
(* totalOwned over the non-hibernated categories that own items, both      *)
(* parts >= 0, and efficiencyPercent = 100 when totalItems = 0.            *)
(***************************************************************************)
C24_EfficiencyPartition ==
  LET e == calculateInventoryEfficiency(categories, now)
      owned == SumSeq(MapSeq(ActiveCategories(categories),
                             LAMBDA c : c.totalOwned))
  IN /\ e.activeItems + e.stagnantItems = e.totalItems
     /\ e.totalItems = owned
     /\ e.activeItems >= 0
     /\ e.stagnantItems >= 0
     /\ e.totalItems = 0 => e.efficiencyPercent = 100

(***************************************************************************)
(* C26: the result of calculateFlowScore, getAllStockoutPredictions,       *)
(* calculateInventoryEfficiency and generateInsights is the same on every  *)
(* snapshot that differs from the queried one only in the counts,          *)
(* thresholds or histories of hibernated categories, and predictStockout   *)
(* of a hibernated category is null.                                       *)
(***************************************************************************)
C26_HibernatedNoInfluence ==
  LET \* other contents for a hibernated category: well stocked and worn
      \* a lot, or all items dirty and never worn
      others(c) ==
        { c,
          [c EXCEPT !.totalOwned = BigStock, !.cleanCount = 1,
                    !.dirtyCount = BigStock - 1, !.safetyThreshold = BigStock,
                    !.maxBatchSize = 1, !.lastWornDate = now - 1,
                    !.wearHistory = RecentWears(ManyWears, now)],
          [c EXCEPT !.totalOwned = MaxOwned, !.cleanCount = MaxOwned,
                    !.dirtyCount = 0, !.inLaundryCount = 1,
                    !.lastWornDate = NullDate, !.wearHistory = <<>>] }
      snapshots ==
        { alt \in [1..Len(categories) ->
                     UNION {others(categories[i]) : i \in 1..Len(categories)}] :
            \A i \in 1..Len(categories) :
               IF categories[i].hibernated THEN alt[i] \in others(categories[i])
               ELSE alt[i] = categories[i] }
  IN /\ result.fn = "calculateFlowScore"
          => \A alt \in snapshots :
                calculateFlowScore(alt, laundryHistory) = result.value
     /\ result.fn = "getAllStockoutPredictions"
          => \A alt \in snapshots :
                getAllStockoutPredictions(alt, now) = result.value
     /\ result.fn = "calculateInventoryEfficiency"
          => \A alt \in snapshots :
                calculateInventoryEfficiency(alt, now) = result.value
     /\ result.fn = "generateInsights"
          => \A alt \in snapshots :
                generateInsights(alt, laundryHistory, now) = result.value
     /\ result.fn = "predictStockout"
          => \A alt \in snapshots :
                /\ predictStockout(alt, result.id, now) = result.value
                /\ (HasId(alt, result.id) /\ FindById(alt, result.id).hibernated)
                      => result.value = NoPrediction

\* the insights of a snapshot with a hibernated category that has no clean
\* item left and an active category
C26_Witness ==
  /\ result.fn = "generateInsights"
  /\ \E i, j \in 1..Len(categories) :
        /\ categories[i].hibernated
        /\ categories[i].totalOwned > 0
        /\ categories[i].cleanCount = 0
        /\ ~categories[j].hibernated
        /\ categories[j].totalOwned > 0

(***************************************************************************)
(* C27: every category has cleanCount <= totalOwned, also when items were  *)
(* retired between the dispatch of a batch and its completion.             *)
(***************************************************************************)
C27_CleanWithinOwned ==
  \A i \in 1..Len(categories) :
     categories[i].cleanCount <= categories[i].totalOwned

(***************************************************************************)
(* C28: for every category, the quantities recorded under its name in the  *)
(* batches that are in progress add up to its inLaundryCount.              *)
(***************************************************************************)
C28_BatchesMatchLaundry ==
  \A i \in 1..Len(categories) :
     LET name == categories[i].name
         staged == [k \in 1..Len(batches) |->
                      IF batches[k].status = "in_progress"
                      THEN Get(batches[k].contents, name) ELSE 0]
     IN SumOver(staged, DOMAIN staged) = categories[i].inLaundryCount

C30_LoadBeforeSave ==
  [][LET stored == result.stored
         written == result'.storage
         saves == result'.writes > result.writes
         newUser == \A k \in DOMAIN stored : stored[k].kind = "absent"
     IN /\ isLoading' => (result'.writes = 0 /\ written = stored)
        /\ saves => ~isLoading'
        /\ (saves /\ newUser) => last'.op \in {"addCategory", "clearBag"}
        /\ (saves /\ last'.op = "load")
             => /\ stored.categories.kind = "ok"
                     => Ids(written.categories.value)
                          = Ids(stored.categories.value)
                /\ stored.batches.kind = "ok"
                     => written.batches.value = stored.batches.value
                /\ stored.laundryHistory.kind = "ok"
                     => written.laundryHistory.value = stored.laundryHistory.value
                /\ (stored.bagContents.kind = "ok" /\ stored.categories.kind = "ok")
                     => written.bagContents.value = stored.bagContents.value]_vars

\* a new user's first save: nothing was stored, loading is over and the
\* category just added has been written
C30_Witness ==
  /\ \A k \in DOMAIN result.stored : result.stored[k].kind = "absent"
  /\ ~isLoading
  /\ last.op = "addCategory"
  /\ result.writes = 1
  /\ result.storage.categories = Slice("ok", categories)
  /\ Len(categories) = 1

=============================================================================
